---- MODULE Spec2Model ----
(***************************************************************************)
(* Model of conferenceplanning.py: plan() and the two matchers _greedy and *)
(* _bruteforce/_bruteforce2.                                               *)
(*                                                                         *)
(* Python lists are modelled as functions with domain 0..n-1, so that the  *)
(* index arithmetic of the source (M[p + i], D[row][i], p - len(T) + k)    *)
(* reads the same here.  T, R and L are opaque label lists; only their     *)
(* lengths nT, nR, nL matter to the computation.                           *)
(***************************************************************************)
EXTENDS Integers, FiniteSets, Sequences

VARIABLES nT, nR, nL, V, kwargs,      \* the arguments of plan
          pc, err,                    \* position in plan / the raised message
          P, vi, M, E, greedy, p, D,  \* the locals of plan
          calls,                      \* the matcher invocations made so far
          bfOut, grOut                \* results of a direct matcher call

vars == <<nT, nR, nL, V, kwargs, pc, err, P, vi, M, E, greedy, p, D, calls, bfOut, grOut>>

-----------------------------------------------------------------------------
(* Bounds of the explored inputs *)

MaxT == 3        \* time slots
MaxR == 3        \* rooms
MaxL == 9        \* presentations (|T| * |R|)
MaxW == 2        \* largest weight in one cell of a ballot
MaxV == 2        \* ballots
MaxCells == 9    \* ballots * presentations
MisV == 1        \* ballots of a call with |L| # |T| * |R|
MatN == 3        \* size of a directly supplied cost matrix
MaxCost == 2     \* largest entry of a directly supplied cost matrix
LimitT == 2      \* small numbers of time slots in the runs around BRUTEFORCE_LIMIT
LimitR == 2      \* rooms in those runs
LimitV == 1      \* ballots in those runs

(* Program constants *)

BRUTEFORCE_LIMIT == 10

\* sys.maxsize is 2^63 - 1; the model checker's integers are 32 bits wide, so
\* the largest representable value stands for it.  Every cost of the model is
\* far below either value.
sys_maxsize == 2147483647

CardinalityMismatch == "number of presentations should equal T * R"
InvalidBallot == "incorrect vote"

-----------------------------------------------------------------------------
(* Python list helpers *)

range(n) == 0 .. (n - 1)

len(l) == Cardinality(DOMAIN l)

EmptyList == [k \in {} |-> 0]

\* l.append(x)
append(l, x) == [k \in range(len(l) + 1) |-> IF k = len(l) THEN x ELSE l[k]]

\* [x] + l
cons(x, l) == [k \in range(len(l) + 1) |-> IF k = 0 THEN x ELSE l[k - 1]]

\* l[k] with Python's negative indices: l[-1] is the last element
item(l, k) == IF k < 0 THEN l[len(l) + k] ELSE l[k]

-----------------------------------------------------------------------------
(* _commonvoices *)

\* Variant: the weight the two presentations share, ballot by ballot
RECURSIVE commonvoices_shared(_, _, _, _, _)
commonvoices_shared(Vs, Ms, pp, r, k) ==
    IF k = len(Vs) THEN 0
    ELSE Vs[k][Ms[pp]] * Vs[k][Ms[r]] + commonvoices_shared(Vs, Ms, pp, r, k + 1)

\* the loop "for v in V" from ballot k on
RECURSIVE commonvoices_from(_, _, _, _, _)
commonvoices_from(Vs, Ms, pp, r, k) ==
    IF k = len(Vs) THEN 0
    ELSE Vs[k][Ms[pp]] + Vs[k][Ms[r]] + commonvoices_from(Vs, Ms, pp, r, k + 1)

_commonvoices(Vs, Ms, pp, r) == commonvoices_from(Vs, Ms, pp, r, 0)

-----------------------------------------------------------------------------
(* _greedy *)

\* Variant: a strict comparison, the first of several minimal columns wins
RECURSIVE greedy_scan_strict(_, _, _, _, _)
greedy_scan_strict(prev, visited, i, min, index) ==
    IF i = len(prev) THEN index
    ELSE IF i \in visited THEN greedy_scan_strict(prev, visited, i + 1, min, index)
    ELSE IF prev[i] < min THEN greedy_scan_strict(prev, visited, i + 1, prev[i], i)
    ELSE greedy_scan_strict(prev, visited, i + 1, min, index)

\* the inner loop "for i in range(len(D))" from column i on
RECURSIVE greedy_scan(_, _, _, _, _)
greedy_scan(prev, visited, i, min, index) ==
    IF i = len(prev) THEN index
    ELSE IF i \in visited THEN greedy_scan(prev, visited, i + 1, min, index)
    ELSE IF prev[i] <= min THEN greedy_scan(prev, visited, i + 1, prev[i], i)
    ELSE greedy_scan(prev, visited, i + 1, min, index)

\* Variant: the chosen column is not added to visited
RECURSIVE greedy_rows_forgetful(_, _, _, _, _, _)
greedy_rows_forgetful(Ds, Ms, pp, k, visited, r) ==
    IF k = len(Ds) THEN r
    ELSE LET index == greedy_scan(Ds[k], visited, 0, sys_maxsize, -1)
         IN  greedy_rows_forgetful(Ds, Ms, pp, k + 1, visited,
                                   append(r, Ms[pp + index]))

\* the outer loop "for prev in D" from row k on
RECURSIVE greedy_rows(_, _, _, _, _, _)
greedy_rows(Ds, Ms, pp, k, visited, r) ==
    IF k = len(Ds) THEN r
    ELSE LET index == greedy_scan(Ds[k], visited, 0, sys_maxsize, -1)
         IN  greedy_rows(Ds, Ms, pp, k + 1, visited \cup {index},
                         append(r, Ms[pp + index]))

_greedy(Ds, Ms, pp) == greedy_rows(Ds, Ms, pp, 0, {}, EmptyList)

-----------------------------------------------------------------------------
(* _bruteforce2 and _bruteforce *)

\* A result of _bruteforce2 is the pair (path, min).
\*
\* Every call has row = |visited| - 1 (the first call has visited = {} and
\* row = -1, each recursive call adds one column and one to row), and D, M, p
\* never change, so the result of a call is a function of visited alone.
\* bf_level(D, M, p, k) tabulates the results of all calls with |visited| = k
\* from the table of the calls they make, those with |visited| = k + 1.

\* lines 53-56: the base case, taken when row == len(D) - 2
bf_first_free(Ds, Ms, pp, visited, row) ==
    LET i == CHOOSE c \in range(len(Ds)) \ visited :
                 \A c2 \in range(len(Ds)) \ visited : c <= c2
    IN  <<cons(Ms[pp + i], EmptyList), item(Ds, row)[i]>>

\* lines 61-71: the loop over the columns from i on; sub[visited + {i}] is
\* what the recursive call of line 66 returns
RECURSIVE bf_loop(_, _, _, _, _, _, _, _, _)
bf_loop(Ds, Ms, pp, visited, row, sub, i, min, path) ==
    IF i = len(Ds) THEN <<path, min>>
    ELSE IF i \in visited THEN bf_loop(Ds, Ms, pp, visited, row, sub, i + 1, min, path)
    ELSE LET res == sub[visited \cup {i}]
             m == res[2] + item(Ds, row)[i]
         IN  IF m <= min
             THEN bf_loop(Ds, Ms, pp, visited, row, sub, i + 1, m, cons(Ms[pp + i], res[1]))
             ELSE bf_loop(Ds, Ms, pp, visited, row, sub, i + 1, min, path)

\* f itself.  The comparison makes the model checker enumerate f once, so that
\* each later application is a lookup and not a re-evaluation of the
\* expression that defines f.
tabulated(f) == IF f = f THEN f ELSE f

RECURSIVE bf_level(_, _, _, _)
bf_level(Ds, Ms, pp, k) ==
    LET n == len(Ds)
        row == k - 1
        Sk == {S \in SUBSET range(n) : Cardinality(S) = k}
    IN  IF row = n - 2
        THEN [visited \in Sk |-> bf_first_free(Ds, Ms, pp, visited, row)]
        ELSE LET sub == tabulated(bf_level(Ds, Ms, pp, k + 1))
             IN  [visited \in Sk |->
                     bf_loop(Ds, Ms, pp, visited, row, sub, 0, sys_maxsize, EmptyList)]

\* _bruteforce2(D, M, p, set(), -1)
_bruteforce2(Ds, Ms, pp) == bf_level(Ds, Ms, pp, 0)[{}]

_bruteforce(Ds, Ms, pp) == _bruteforce2(Ds, Ms, pp)[1]

-----------------------------------------------------------------------------
(* sorted(M, key=lambda x: P[x], reverse=True) *)

\* Python's sort is stable, and reverse=True keeps the original order of
\* elements with equal keys.  Insertion of x behind every element whose key
\* is >= the key of x, taking the elements in their original order.
\* Variant: reverse=True forgotten, the sort is ascending
RECURSIVE insert_asc(_, _, _, _)
insert_asc(l, x, Ps, k) ==
    IF k = len(l) \/ Ps[l[k]] > Ps[x]
    THEN [j \in range(len(l) + 1) |->
             IF j < k THEN l[j] ELSE IF j = k THEN x ELSE l[j - 1]]
    ELSE insert_asc(l, x, Ps, k + 1)

RECURSIVE insert_desc(_, _, _, _)
insert_desc(l, x, Ps, k) ==
    IF k = len(l) \/ Ps[l[k]] < Ps[x]
    THEN [j \in range(len(l) + 1) |->
             IF j < k THEN l[j] ELSE IF j = k THEN x ELSE l[j - 1]]
    ELSE insert_desc(l, x, Ps, k + 1)

RECURSIVE sorted_from(_, _, _, _)
sorted_from(Ms, Ps, k, acc) ==
    IF k = len(Ms) THEN acc
    ELSE sorted_from(Ms, Ps, k + 1, insert_desc(acc, Ms[k], Ps, 0))

sorted_reverse(Ms, Ps) == sorted_from(Ms, Ps, 0, EmptyList)

-----------------------------------------------------------------------------
(* plan *)

NoKwargs == [k \in {} |-> TRUE]

\* lines 100-103: the sum of the weights of ballot v from cell k on
RECURSIVE ballot_sum(_, _)
ballot_sum(v, k) == IF k = len(v) THEN 0 ELSE v[k] + ballot_sum(v, k + 1)

\* Variant: the threshold is off by one
default_greedy_late(n) == n > BRUTEFORCE_LIMIT + 1

\* line 116: the matcher chosen when the caller passes no "greedy" keyword
default_greedy(n) == n > BRUTEFORCE_LIMIT

\* Variant: one presentation too many is accepted
cardinality_too_few(l, t, r) == l < t * r

\* line 94: len(L) != len(T) * len(R)
cardinality_mismatch(l, t, r) == l # t * r

\* Variant: the limit of a ballot is off by one
ballot_rejected_late(v, l) == ballot_sum(v, 0) > l + 1

\* line 104: sum > len(L)
ballot_rejected(v, l) == ballot_sum(v, 0) > l

\* lines 113-116
choose_greedy(kw, n) ==
    IF "greedy" \in DOMAIN kw THEN kw["greedy"] ELSE default_greedy(n)

\* lines 130-132
cost_matrix(Vs, Ms, pp, n) ==
    [i \in range(n) |-> [k \in range(n) |-> _commonvoices(Vs, Ms, pp - n + k, pp + i)]]

\* lines 133-136: the tier the chosen matcher returns
match_tier(g, Ds, Ms, pp) == IF g THEN _greedy(Ds, Ms, pp) ELSE _bruteforce(Ds, Ms, pp)

\* lines 128-137: the loop from position pp on, as a function of its inputs
RECURSIVE tiers_from(_, _, _, _, _, _, _)
tiers_from(Vs, Ms, n, total, g, pp, Es) ==
    IF pp < total
    THEN tiers_from(Vs, Ms, n, total, g, pp + n,
                    append(Es, match_tier(g, cost_matrix(Vs, Ms, pp, n), Ms, pp)))
    ELSE Es

\* lines 98-103 for one ballot v
add_ballot(Ps, v) == [i \in DOMAIN Ps |-> Ps[i] + v[i]]

RECURSIVE popularity_from(_, _, _)
popularity_from(Vs, n, k) ==
    IF k = len(Vs) THEN [i \in range(n) |-> 0]
    ELSE add_ballot(popularity_from(Vs, n, k + 1), Vs[k])

\* lines 108-137 for valid input: the list plan returns
plan_result(Vs, nt, nr, g) ==
    LET Ms == sorted_reverse([i \in range(nt * nr) |-> i], popularity_from(Vs, nt * nr, 0))
    IN  tiers_from(Vs, Ms, nt, nt * nr, g, nt, append(EmptyList, [k \in range(nt) |-> Ms[k]]))

\* line 94-95
RaiseCardinality ==
    /\ pc = "start"
    /\ cardinality_mismatch(nL, nT, nR)
    /\ pc' = "failed"
    /\ err' = CardinalityMismatch
    /\ UNCHANGED <<nT, nR, nL, V, kwargs, P, vi, M, E, greedy, p, D, calls, bfOut, grOut>>

\* line 98
BeginAggregate ==
    /\ pc = "start"
    /\ ~cardinality_mismatch(nL, nT, nR)
    /\ pc' = "aggregate"
    /\ P' = [i \in range(nL) |-> 0]
    /\ vi' = 0
    /\ UNCHANGED <<nT, nR, nL, V, kwargs, err, M, E, greedy, p, D, calls, bfOut, grOut>>

\* lines 99-105, one iteration of "for v in V", the ballot passes
AggregateBallot ==
    /\ pc = "aggregate"
    /\ vi < len(V)
    /\ ~ballot_rejected(V[vi], nL)
    /\ P' = add_ballot(P, V[vi])
    /\ vi' = vi + 1
    /\ UNCHANGED <<nT, nR, nL, V, kwargs, pc, err, M, E, greedy, p, D, calls, bfOut, grOut>>

\* lines 99-105, one iteration of "for v in V", the ballot is rejected
RaiseBallot ==
    /\ pc = "aggregate"
    /\ vi < len(V)
    /\ ballot_rejected(V[vi], nL)
    /\ P' = add_ballot(P, V[vi])
    /\ pc' = "failed"
    /\ err' = InvalidBallot
    /\ UNCHANGED <<nT, nR, nL, V, kwargs, vi, M, E, greedy, p, D, calls, bfOut, grOut>>

\* lines 107-127
RankAndFirstTier ==
    /\ pc = "aggregate"
    /\ vi = len(V)
    /\ LET Ms == sorted_reverse([i \in range(len(P)) |-> i], P)
       IN  /\ M' = Ms
           /\ E' = append(EmptyList, [k \in range(nT) |-> Ms[k]])
    /\ greedy' = choose_greedy(kwargs, nT)
    /\ p' = nT
    /\ pc' = "tiers"
    /\ UNCHANGED <<nT, nR, nL, V, kwargs, err, P, vi, D, calls, bfOut, grOut>>

\* lines 128-137, one iteration of "while p < len(T) * len(R)"
Tier ==
    /\ pc = "tiers"
    /\ p < nT * nR
    /\ LET Ds == cost_matrix(V, M, p, nT)
       IN  /\ D' = Ds
           /\ E' = append(E, match_tier(greedy, Ds, M, p))
    /\ calls' = Append(calls, [fn |-> IF greedy THEN "_greedy" ELSE "_bruteforce",
                               n |-> nT, at |-> p])
    /\ p' = p + nT
    /\ UNCHANGED <<nT, nR, nL, V, kwargs, pc, err, P, vi, M, greedy, bfOut, grOut>>

\* lines 128, 144: the loop ends and plan returns E
Return ==
    /\ pc = "tiers"
    /\ p >= nT * nR
    /\ pc' = "done"
    /\ UNCHANGED <<nT, nR, nL, V, kwargs, err, P, vi, M, E, greedy, p, D, calls, bfOut, grOut>>

Next == RaiseCardinality \/ BeginAggregate \/ AggregateBallot \/ RaiseBallot
          \/ RankAndFirstTier \/ Tier \/ Return

-----------------------------------------------------------------------------
(* The explored calls of plan *)

KwargsSet == {NoKwargs, [greedy |-> TRUE], [greedy |-> FALSE]}

\* ballots over n presentations that give a weight of at most MaxW to at most
\* two of them
BallotVectors(n) ==
    {[i \in range(n) |-> IF i = a THEN wa ELSE IF i = b THEN wb ELSE 0] :
        a \in range(n), b \in range(n), wa \in 0 .. MaxW, wb \in 0 .. MaxW}

\* lists of at most maxv ballots with at most cells weights in all, never
\* fewer than one ballot
BallotLists(n, maxv, cells) ==
    LET most == IF n = 0 \/ cells \div n >= maxv THEN maxv
                ELSE IF cells \div n = 0 THEN 1 ELSE cells \div n
    IN  UNION {[range(k) -> BallotVectors(n)] : k \in 0 .. most}

\* the state at the entry of plan(T, R, L, V, **kw)
Entry(t, r, l, v, kw) ==
    /\ nT = t /\ nR = r /\ nL = l /\ V = v /\ kwargs = kw
    /\ pc = "start" /\ err = ""
    /\ P = EmptyList /\ vi = 0 /\ M = EmptyList /\ E = EmptyList
    /\ greedy = FALSE /\ p = 0 /\ D = EmptyList
    /\ calls = <<>> /\ bfOut = <<>> /\ grOut = EmptyList

\* calls with |L| = |T| * |R|
InitMatching ==
    \E t \in 1 .. MaxT, r \in 1 .. MaxR :
        /\ t * r <= MaxL
        /\ \E v \in BallotLists(t * r, MaxV, MaxCells), kw \in KwargsSet :
               Entry(t, r, t * r, v, kw)

\* calls with |L| # |T| * |R|
InitMismatch ==
    \E t \in 1 .. MaxT, r \in 1 .. MaxR :
        /\ t * r <= MaxL
        /\ \E l \in {t * r - 1, t * r + 1} :
             \E v \in BallotLists(l, MisV, MaxCells), kw \in KwargsSet :
                 Entry(t, r, l, v, kw)

Init == InitMatching \/ InitMismatch

Spec == Init /\ [][Next]_vars

-----------------------------------------------------------------------------
(* Runs around BRUTEFORCE_LIMIT *)

LimitVectors(n) ==
    {[i \in range(n) |-> IF i = a THEN w ELSE 0] : a \in {0, n - 1}, w \in {0, 1, n + 1}}

LimitLists(n) == UNION {[range(k) -> LimitVectors(n)] : k \in 0 .. LimitV}

InitLimit ==
    \E t \in (1 .. LimitT) \cup {BRUTEFORCE_LIMIT, BRUTEFORCE_LIMIT + 1}, r \in 1 .. LimitR :
        \E l \in {t * r, t * r + 1} :
            \E v \in LimitLists(l), kw \in KwargsSet :
                Entry(t, r, l, v, kw)

SpecLimit == InitLimit /\ [][Next]_vars

-----------------------------------------------------------------------------
(* Direct calls of the matchers on a cost matrix *)

CostMatrices(n) == [range(n) -> [range(n) -> 0 .. MaxCost]]

\* D is any n x n matrix, M lists the candidates pp .. pp + n - 1 at those
\* positions, so that the entry M[pp + i] of a result names column i
InitMatch ==
    \E n \in 1 .. MatN :
        \E d \in CostMatrices(n), pp \in {0, n} :
            /\ D = d /\ M = [k \in range(pp + n) |-> k] /\ p = pp
            /\ nT = n /\ nR = 1 /\ nL = n /\ V = EmptyList /\ kwargs = NoKwargs
            /\ pc = "match" /\ err = ""
            /\ P = EmptyList /\ vi = 0 /\ E = EmptyList /\ greedy = FALSE
            /\ calls = <<>> /\ bfOut = <<>> /\ grOut = EmptyList

\* _bruteforce2(D, M, p, set(), -1)
CallBruteforce ==
    /\ pc = "match"
    /\ bfOut = <<>>
    /\ bfOut' = _bruteforce2(D, M, p)
    /\ UNCHANGED <<nT, nR, nL, V, kwargs, pc, err, P, vi, M, E, greedy, p, D, calls, grOut>>

\* _greedy(D, M, p)
CallGreedy ==
    /\ pc = "match"
    /\ grOut = EmptyList
    /\ grOut' = _greedy(D, M, p)
    /\ UNCHANGED <<nT, nR, nL, V, kwargs, pc, err, P, vi, M, E, greedy, p, D, calls, bfOut>>

NextMatch == CallBruteforce \/ CallGreedy

SpecMatch == InitMatch /\ [][NextMatch]_vars

-----------------------------------------------------------------------------
(* Notions the properties are stated in *)

\* f[0] + ... + f[n - 1]
RECURSIVE SumTo(_, _)
SumTo(f, n) == IF n = 0 THEN 0 ELSE f[n - 1] + SumTo(f, n - 1)

\* the total weight of one ballot
WeightOf(v) == SumTo(v, len(v))

\* the popularity of presentation i: its weight summed over all ballots
VotesFor(i) == SumTo([k \in range(len(V)) |-> V[k][i]], len(V))

HasInvalidBallot == \E k \in range(len(V)) : WeightOf(V[k]) > nL

\* a comes before b in the ranking: more popular, or as popular and of lower index
RankedBefore(a, b) ==
    VotesFor(a) > VotesFor(b) \/ (VotesFor(a) = VotesFor(b) /\ a < b)

\* the cost of a tier read slot by slot: slot i holds candidate tier[i] = M[p + c],
\* which is column c of the matrix
SlotCost(tier) == SumTo([i \in range(len(D)) |-> D[i][tier[i] - p]], len(D))

ColumnPermutations(n) == {f \in [range(n) -> range(n)] : \A a, b \in range(n) : f[a] = f[b] => a = b}

\* the least cost of any one-to-one assignment of columns to the rows of D
LeastCost ==
    LET costs == {SumTo([i \in range(len(D)) |-> D[i][f[i]]], len(D)) :
                      f \in ColumnPermutations(len(D))}
    IN  CHOOSE c \in costs : \A c2 \in costs : c <= c2

\* nL - 1 valid ballots whose ranking is Ms whatever Ms is: ballot j gives
\* weight 1 to each of the j + 1 first presentations of Ms, so that the
\* presentation at rank k has popularity nL - 1 - k
CanonicalBallots(Ms) ==
    [j \in range(len(Ms) - 1) |->
        [i \in range(len(Ms)) |-> IF \E k \in 0 .. j : Ms[k] = i THEN 1 ELSE 0]]

-----------------------------------------------------------------------------
(* Properties *)

\* C1: when plan returns, E has |R| tiers of |T| entries each and every
\* presentation index 0..|L|-1 appears in it exactly once, whichever matcher ran.
C1_AssignmentIsPermutation ==
    pc = "done" =>
        /\ DOMAIN E = range(nR)
        /\ \A r \in range(nR) : DOMAIN E[r] = range(nT)
        /\ \A r \in range(nR), t \in range(nT) : E[r][t] \in range(nL)
        /\ \A x \in range(nL) :
               Cardinality({rt \in range(nR) \X range(nT) : E[rt[1]][rt[2]] = x}) = 1

C1_Witness ==
    /\ pc = "done" /\ nR >= 3 /\ nT >= 2
    /\ \E k \in 1 .. Len(calls) : calls[k].fn = "_bruteforce"

\* C2: when plan returns, M lists the presentations by popularity descending,
\* equally popular ones in ascending index order; tier r holds exactly
\* M[r*|T|] .. M[(r+1)*|T|-1]; and nothing in tier r is less popular than
\* anything in tier r+1.
C2_TiersFollowRanking ==
    pc = "done" =>
        /\ DOMAIN M = range(nL)
        /\ \A i, j \in range(nL) : i < j => RankedBefore(M[i], M[j])
        /\ \A r \in range(nR) :
               {E[r][t] : t \in range(nT)} = {M[r * nT + k] : k \in range(nT)}
        /\ \A r \in range(nR - 1), a, b \in range(nT) :
               VotesFor(E[r][a]) >= VotesFor(E[r + 1][b])

C2_Witness ==
    /\ pc = "done" /\ nR >= 2 /\ nT >= 2
    /\ \E a, b \in range(nL) : a < b /\ VotesFor(a) = VotesFor(b)
    /\ \E a, b \in range(nL) : a < b /\ VotesFor(a) < VotesFor(b)

\* C3: a call with |L| = |T|*|R| and a ballot heavier than |L| never gets past
\* the aggregation of that ballot: it can only fail, with "incorrect vote", and
\* it records no tier and invokes no matcher.
C3_InvalidBallotFails ==
    (nL = nT * nR /\ HasInvalidBallot) =>
        /\ pc \in {"start", "aggregate", "failed"}
        /\ pc = "aggregate" => \E k \in range(len(V)) : k >= vi /\ WeightOf(V[k]) > nL
        /\ pc = "failed" => err = InvalidBallot
        /\ M = EmptyList /\ E = EmptyList /\ calls = <<>>

C3_Witness ==
    /\ pc = "failed" /\ err = InvalidBallot
    /\ vi = 1 /\ WeightOf(V[0]) <= nL /\ WeightOf(V[1]) > nL

\* C4: a call with |L| # |T|*|R| can only fail, with the cardinality message,
\* and it does so before anything is computed: no popularity, no ballot
\* looked at, no ranking, no tier, no matcher, invalid ballots or not.
C4_CardinalityFailsFirst ==
    nL # nT * nR =>
        /\ pc \in {"start", "failed"}
        /\ pc = "failed" => err = CardinalityMismatch
        /\ P = EmptyList /\ vi = 0 /\ M = EmptyList /\ E = EmptyList /\ calls = <<>>

C4_Witness ==
    /\ pc = "failed" /\ err = CardinalityMismatch /\ HasInvalidBallot

\* C5: the path _bruteforce2 returns, read with position i as row (time slot) i,
\* is a permutation of the columns whose cost is the least of all
\* permutations, and the returned total is that cost.
C5_ExactIsOptimalBySlot ==
    bfOut # <<>> =>
        /\ DOMAIN bfOut[1] = range(len(D))
        /\ {bfOut[1][i] - p : i \in range(len(D))} = range(len(D))
        /\ SlotCost(bfOut[1]) = LeastCost
        /\ bfOut[2] = SlotCost(bfOut[1])

\* C6: on the same matrix of size <= 3 the tier of the exact matcher costs,
\* slot by slot, no more than the tier of the greedy matcher.
C6_ExactNotWorseThanGreedy ==
    (bfOut # <<>> /\ grOut # EmptyList /\ len(D) <= 3) =>
        SlotCost(bfOut[1]) <= SlotCost(grOut)

\* C7 as stated: no run invokes the exact matcher with more than
\* BRUTEFORCE_LIMIT time slots, whatever the greedy keyword.
C7_ExactNeverAboveLimit ==
    \A k \in 1 .. Len(calls) :
        calls[k].fn = "_bruteforce" => calls[k].n <= BRUTEFORCE_LIMIT

\* C7 amended: a run without the greedy keyword never invokes the exact
\* matcher with more than BRUTEFORCE_LIMIT time slots.
C7_DefaultExactWithinLimit ==
    "greedy" \notin DOMAIN kwargs =>
        \A k \in 1 .. Len(calls) :
            calls[k].fn = "_bruteforce" => calls[k].n <= BRUTEFORCE_LIMIT

C7_Witness ==
    /\ "greedy" \notin DOMAIN kwargs
    /\ nT > BRUTEFORCE_LIMIT
    /\ \E k \in 1 .. Len(calls) : calls[k].fn = "_greedy" /\ calls[k].n = nT

\* C8: the matrix D handed to the matcher for tier r >= 1 has in cell (i, j) the
\* votes, over all ballots, for the presentation recorded at slot i of tier
\* r - 1 plus those for the j-th candidate of tier r.
C8_MatrixFromPreviousTier ==
    calls # <<>> =>
        LET r == len(E) - 1
        IN  \A i, j \in range(nT) :
                D[i][j] = VotesFor(E[r - 1][i]) + VotesFor(M[r * nT + j])

\* C9: the list plan returns is the list the other matcher would have
\* produced from the same input.
C9_MatchersAgree ==
    pc = "done" => E = plan_result(V, nT, nR, ~greedy)

C9_Witness ==
    /\ pc = "done" /\ nT >= 3 /\ nR >= 2 /\ ~greedy
    /\ \E a, b \in range(nL) : a < b /\ VotesFor(a) = VotesFor(b)
    /\ \E a, b \in range(nL) : a < b /\ VotesFor(a) < VotesFor(b)

====
